---- MODULE Spec2Model ----
(***************************************************************************)
(* Model of homeassistant/components/solplanet/client.py: the HTTP         *)
(* transport (SolplanetClient.get), the response mapper (SolplanetApi      *)
(* query methods) and the battery mode change (change_battery_mode).       *)
(*                                                                         *)
(* Python values are tagged records: ints, strs, lists and dicts as        *)
(* json() yields them, None, enum members and dataclass instances.         *)
(* An operation that may raise yields Ok(v) or Raise(e).                   *)
(***************************************************************************)
EXTENDS Integers, Sequences, FiniteSets, TLC

VARIABLES
    device,     \* battery configuration held by the physical device
    op,         \* SolplanetApi method in progress, "none" when idle
    sn,         \* its serial number argument (None when it takes none)
    mode,       \* its mode argument (None when it takes none)
    pc,         \* position of the call
    session,    \* aiohttp.ClientSession of the running get: none/open/closed
    gets,       \* endpoints passed to SolplanetClient.get by this call
    body,       \* HTTP response body served by the device to this call
    response,   \* value returned by response.json() / client.get
    current,    \* change_battery_mode's local `current`
    request,    \* change_battery_mode's local `request`
    logged,     \* argument of the debug log of set_battery_config
    result,     \* record returned to the caller
    err,        \* exception that left the call, "none" when none
    unclosed    \* sessions of finished calls that were never closed

vars == <<device, op, sn, mode, pc, session, gets, body, response, current,
          request, logged, result, err, unclosed>>

(***************************************************************************)
(* Bounds                                                                  *)
(***************************************************************************)
MaxItems == 2
MaxUnclosed == 1

(***************************************************************************)
(* Python / JSON values                                                    *)
(***************************************************************************)
None == [ty |-> "None"]
PyInt(n) == [ty |-> "int", n |-> n]
PyStr(s) == [ty |-> "str", s |-> s]
PyList(items) == [ty |-> "list", items |-> items]
PyDict(m) == [ty |-> "dict", m |-> m]
Instance(cls, m) == [ty |-> "instance", cls |-> cls, fields |-> m]

Ok(v) == [ok |-> TRUE, val |-> v]
Raise(e) == [ok |-> FALSE, exc |-> e]

(***************************************************************************)
(* Dataclass declarations: field name |-> declared type                    *)
(***************************************************************************)
GetMeterDataResponse ==
    [flg |-> "int", tim |-> "str", pac |-> "int", itd |-> "int",
     otd |-> "int", iet |-> "int", oet |-> "int", mod |-> "int",
     enb |-> "int"]

GetInverterDataResponse ==
    [flg |-> "int", tim |-> "str", tmp |-> "int", fac |-> "int",
     pac |-> "int", sac |-> "int", qac |-> "int", eto |-> "int",
     etd |-> "int", hto |-> "int", pf |-> "int", wan |-> "int",
     err |-> "int", vac |-> "list[int]", iac |-> "list[int]",
     vpv |-> "list[int]", ipv |-> "list[int]", str |-> "list[int]"]

GetBatteryDataResponse ==
    [flg |-> "int", tim |-> "str", ppv |-> "int", etdpv |-> "int",
     etopv |-> "int", cst |-> "int", bst |-> "int", eb1 |-> "int",
     wb1 |-> "int", vb |-> "int", cb |-> "int", pb |-> "int", tb |-> "int",
     soc |-> "int", soh |-> "int", cli |-> "int", clo |-> "int",
     ebi |-> "int", ebo |-> "int", eaci |-> "int", eaco |-> "int",
     vesp |-> "int", cesp |-> "int", fesp |-> "int", pesp |-> "int",
     rpesp |-> "int", etdesp |-> "int", etoesp |-> "int",
     charge_ac_td |-> "int", charge_ac_to |-> "int"]

GetMonitorInfoResponse ==
    [psn |-> "str", key |-> "str", typ |-> "int", nam |-> "str",
     mod |-> "str", muf |-> "str", brd |-> "str", hw |-> "str",
     sw |-> "str", wsw |-> "str", protocol |-> "str", tim |-> "str",
     drm |-> "int", drm_q |-> "int", ali_ip |-> "str", ali_port |-> "int",
     pdk |-> "str", ser |-> "str", status |-> "int"]

GetInverterInfoItemResponse ==
    [isn |-> "str", add |-> "int", safety |-> "int", rate |-> "int",
     msw |-> "str", ssw |-> "str", tsw |-> "str", pac |-> "int",
     etd |-> "int", eto |-> "int", err |-> "int", cmv |-> "str",
     mty |-> "int", model |-> "str"]

GetInverterInfoResponse ==
    [inv |-> "list[GetInverterInfoItemResponse]", num |-> "int"]

GetRegulateInfoResponse ==
    [mod |-> "int", enb |-> "int", exp_m |-> "int", regulate |-> "int",
     enb_PF |-> "int", target_PF |-> "int", total_pac |-> "int",
     total_fac |-> "int", meter_pac |-> "int"]

GetBatteryInfoItemResponse ==
    [bid |-> "int", devtype |-> "str", manufactoty |-> "str",
     partno |-> "str", model1sn |-> "str", model2sn |-> "str",
     model3sn |-> "str", model4sn |-> "str", model5sn |-> "str",
     model6sn |-> "str", model7sn |-> "str", model8sn |-> "str",
     modeltotal |-> "int", monomertotoal |-> "int",
     monomerinmodel |-> "int", ratedvoltage |-> "int", capacity |-> "int",
     hardwarever |-> "str", softwarever |-> "str"]

GetBatteryInfoResponse ==
    [isn |-> "str", stu_r |-> "int", type |-> "int", mod_r |-> "int",
     muf |-> "int", mod |-> "int", num |-> "int", fir_r |-> "int",
     charging |-> "int", charge_max |-> "int", discharge_max |-> "int",
     battery |-> "GetBatteryInfoItemResponse"]

GetWifiListItemResponse ==
    [sid |-> "str", srh |-> "str", channel |-> "str"]

GetWifiListResponse ==
    [wif |-> "list[GetWifiListItemResponse]", num |-> "str"]

GetWlanStaInfoResponse ==
    [mode |-> "str", sid |-> "str", srh |-> "int", ip |-> "str",
     gtw |-> "str", msk |-> "str"]

GetWlanApInfoResponse ==
    [mode |-> "str", sid |-> "str", psw |-> "str", ip |-> "str"]

GetWlanInfoResponse ==
    [mode |-> "str", ip |-> "str", gtw |-> "str", msk |-> "str"]

SetBatteryConfigValueRequest ==
    [type |-> "int", mod_r |-> "int", sn |-> "str", discharge_max |-> "int",
     charge_max |-> "int", muf |-> "int", mod |-> "int", num |-> "int"]

Schema(cls) ==
    CASE cls = "GetMeterDataResponse" -> GetMeterDataResponse
      [] cls = "GetInverterDataResponse" -> GetInverterDataResponse
      [] cls = "GetBatteryDataResponse" -> GetBatteryDataResponse
      [] cls = "GetMonitorInfoResponse" -> GetMonitorInfoResponse
      [] cls = "GetInverterInfoItemResponse" -> GetInverterInfoItemResponse
      [] cls = "GetInverterInfoResponse" -> GetInverterInfoResponse
      [] cls = "GetRegulateInfoResponse" -> GetRegulateInfoResponse
      [] cls = "GetBatteryInfoItemResponse" -> GetBatteryInfoItemResponse
      [] cls = "GetBatteryInfoResponse" -> GetBatteryInfoResponse
      [] cls = "GetWifiListItemResponse" -> GetWifiListItemResponse
      [] cls = "GetWifiListResponse" -> GetWifiListResponse
      [] cls = "GetWlanStaInfoResponse" -> GetWlanStaInfoResponse
      [] cls = "GetWlanApInfoResponse" -> GetWlanApInfoResponse
      [] cls = "GetWlanInfoResponse" -> GetWlanInfoResponse

(***************************************************************************)
(* BatteryMode(Enum): member name |-> value.  A member is not equal to     *)
(* the int that is its value.                                              *)
(***************************************************************************)
BatteryMode ==
    [OwnNeeds |-> 1, Backup |-> 2, Advanced |-> 3, OffGrid |-> 4,
     Charging |-> 5]

Member(name) == [ty |-> "BatteryMode", name |-> name, value |-> BatteryMode[name]]

BatteryModes == {Member(name) : name \in DOMAIN BatteryMode}

(***************************************************************************)
(* Python primitives used by the mapper                                    *)
(***************************************************************************)
\* Characters of the strings that occur as values in this model.
Chars(s) ==
    CASE s = "" -> <<>>
      [] s = "x" -> <<"x">>
      [] s = "A" -> <<"A">>
      [] s = "B" -> <<"B">>
      [] s = "SN9" -> <<"S", "N", "9">>
      [] s = "SN123" -> <<"S", "N", "1", "2", "3">>

RECURSIVE SetToSeq(_)
SetToSeq(S) ==
    IF S = {} THEN <<>>
    ELSE LET e == CHOOSE e \in S : TRUE IN <<e>> \o SetToSeq(S \ {e})

\* `for item in v`: a list yields its items, a str its characters, a dict
\* its keys; anything else is not iterable.
Iterate(v) ==
    CASE v.ty = "list" -> Ok(v.items)
      [] v.ty = "str" ->
           Ok([i \in 1..Len(Chars(v.s)) |-> PyStr(Chars(v.s)[i])])
      [] v.ty = "dict" ->
           Ok([i \in 1..Cardinality(DOMAIN v.m) |->
                  PyStr(SetToSeq(DOMAIN v.m)[i])])
      [] OTHER -> Raise("TypeError")

\* `obj[key]` with a str key.
GetItem(obj, key) ==
    IF obj.ty = "dict"
    THEN IF key \in DOMAIN obj.m THEN Ok(obj.m[key]) ELSE Raise("KeyError")
    ELSE Raise("TypeError")

\* `Cls(**kwargs)` for a dataclass none of whose fields has a default: the
\* generated __init__ takes exactly the declared names and checks no type.
ConstructLenient(cls, kwargs) ==
    IF kwargs.ty # "dict" THEN Raise("TypeError")
    ELSE IF DOMAIN kwargs.m \subseteq DOMAIN Schema(cls)
    THEN Ok(Instance(cls, [f \in DOMAIN Schema(cls) |->
                             IF f \in DOMAIN kwargs.m THEN kwargs.m[f]
                             ELSE None]))
    ELSE Raise("TypeError")

Construct(cls, kwargs) ==
    IF kwargs.ty # "dict" THEN Raise("TypeError")
    ELSE IF DOMAIN kwargs.m = DOMAIN Schema(cls)
    THEN Ok(Instance(cls, kwargs.m))
    ELSE Raise("TypeError")

\* `[Cls(**item) for item in v]`
ComprehensionReversed(cls, v) ==
    IF ~Iterate(v).ok THEN Iterate(v)
    ELSE LET items == Iterate(v).val
             n == Len(items)
         IN IF \E i \in 1..n : ~Construct(cls, items[i]).ok
            THEN Raise("TypeError")
            ELSE Ok(PyList([i \in 1..n |->
                               Construct(cls, items[n + 1 - i]).val]))

Comprehension(cls, v) ==
    IF ~Iterate(v).ok THEN Iterate(v)
    ELSE LET items == Iterate(v).val
         IN IF \E i \in 1..Len(items) : ~Construct(cls, items[i]).ok
            THEN Raise("TypeError")
            ELSE Ok(PyList([i \in 1..Len(items) |->
                               Construct(cls, items[i]).val]))

(***************************************************************************)
(* SolplanetApi query methods: the code after `await self.client.get(..)`  *)
(***************************************************************************)
get_meter_data(resp) == Construct("GetMeterDataResponse", resp)

get_inverter_data(resp) == Construct("GetInverterDataResponse", resp)

get_battery_data(resp) == Construct("GetBatteryDataResponse", resp)

get_monitor_info(resp) == Construct("GetMonitorInfoResponse", resp)

get_inverter_info(resp) ==
    LET inv == GetItem(resp, "inv")
        items == Comprehension("GetInverterInfoItemResponse", inv.val)
    IN IF ~inv.ok THEN inv
       ELSE IF ~items.ok THEN items
       ELSE Construct("GetInverterInfoResponse",
                      PyDict([resp.m EXCEPT !["inv"] = items.val]))

get_regulate_info(resp) == Construct("GetRegulateInfoResponse", resp)

get_battery_info(resp) ==
    LET raw == GetItem(resp, "battery")
        battery == Construct("GetBatteryInfoItemResponse", raw.val)
    IN IF ~raw.ok THEN raw
       ELSE IF ~battery.ok THEN battery
       ELSE Construct("GetBatteryInfoResponse",
                      PyDict([resp.m EXCEPT !["battery"] = battery.val]))

get_wifi_list(resp) ==
    LET wif == GetItem(resp, "wif")
        items == Comprehension("GetWifiListItemResponse", wif.val)
    IN IF ~wif.ok THEN wif
       ELSE IF ~items.ok THEN items
       ELSE Construct("GetWifiListResponse",
                      PyDict([resp.m EXCEPT !["wif"] = items.val]))

get_wlan_sta_info(resp) == Construct("GetWlanStaInfoResponse", resp)

get_wlan_ap_info(resp) == Construct("GetWlanApInfoResponse", resp)

get_wlan_info(resp) == Construct("GetWlanInfoResponse", resp)

QueryOps ==
    {"get_meter_data", "get_inverter_data", "get_battery_data",
     "get_monitor_info", "get_inverter_info", "get_regulate_info",
     "get_battery_info", "get_wifi_list", "get_wlan_sta_info",
     "get_wlan_ap_info", "get_wlan_info"}

SerialOps == {"get_inverter_data", "get_battery_data"}

\* The record class a method returns (change_battery_mode reads through
\* get_battery_info).
ResponseClass(o) ==
    CASE o = "get_meter_data" -> "GetMeterDataResponse"
      [] o = "get_inverter_data" -> "GetInverterDataResponse"
      [] o = "get_battery_data" -> "GetBatteryDataResponse"
      [] o = "get_monitor_info" -> "GetMonitorInfoResponse"
      [] o = "get_inverter_info" -> "GetInverterInfoResponse"
      [] o = "get_regulate_info" -> "GetRegulateInfoResponse"
      [] o = "get_battery_info" -> "GetBatteryInfoResponse"
      [] o = "get_wifi_list" -> "GetWifiListResponse"
      [] o = "get_wlan_sta_info" -> "GetWlanStaInfoResponse"
      [] o = "get_wlan_ap_info" -> "GetWlanApInfoResponse"
      [] o = "get_wlan_info" -> "GetWlanInfoResponse"
      [] o = "change_battery_mode" -> "GetBatteryInfoResponse"

\* The endpoint a method passes to client.get, as the pieces it concatenates.
Endpoint(o, serial) ==
    CASE o = "get_meter_data" -> <<"getdevdata.cgi?device=3">>
      [] o = "get_inverter_data" -> <<"getdevdata.cgi?device=2&sn=", serial.s>>
      [] o = "get_battery_data" -> <<"getdevdata.cgi?device=4&sn=", serial.s>>
      [] o = "get_monitor_info" -> <<"getdev.cgi">>
      [] o = "get_inverter_info" -> <<"getdev.cgi?device=2">>
      [] o = "get_regulate_info" -> <<"getdev.cgi?device=3">>
      [] o = "get_battery_info" -> <<"getdev.cgi?device=4">>
      [] o = "get_wifi_list" -> <<"wlanget.cgi?info=4">>
      [] o = "get_wlan_sta_info" -> <<"wlanget.cgi?info=2">>
      [] o = "get_wlan_ap_info" -> <<"wlanget.cgi?info=1">>
      [] o = "get_wlan_info" -> <<"wlanget.cgi?info=3">>
      [] o = "change_battery_mode" -> <<"getdev.cgi?device=4">>

\* The mapping code of a method applied to the value client.get returned.
Mapper(o, resp) ==
    CASE o = "get_meter_data" -> get_meter_data(resp)
      [] o = "get_inverter_data" -> get_inverter_data(resp)
      [] o = "get_battery_data" -> get_battery_data(resp)
      [] o = "get_monitor_info" -> get_monitor_info(resp)
      [] o = "get_inverter_info" -> get_inverter_info(resp)
      [] o = "get_regulate_info" -> get_regulate_info(resp)
      [] o = "get_battery_info" -> get_battery_info(resp)
      [] o = "get_wifi_list" -> get_wifi_list(resp)
      [] o = "get_wlan_sta_info" -> get_wlan_sta_info(resp)
      [] o = "get_wlan_ap_info" -> get_wlan_ap_info(resp)
      [] o = "get_wlan_info" -> get_wlan_info(resp)
      [] o = "change_battery_mode" -> get_battery_info(resp)

(***************************************************************************)
(* Battery mode change                                                     *)
(***************************************************************************)
_fill_swapped(battery_value, m) ==
    IF m = Member("OwnNeeds")
    THEN Ok([battery_value EXCEPT !.mod_r = PyInt(2), !.type = PyInt(1)])
    ELSE IF m = Member("Backup")
    THEN Ok([battery_value EXCEPT !.mod_r = PyInt(4), !.type = PyInt(1)])
    ELSE IF m = Member("Advanced")
    THEN Ok([battery_value EXCEPT !.mod_r = PyInt(3), !.type = PyInt(1)])
    ELSE IF m = Member("OffGrid")
    THEN Ok([battery_value EXCEPT !.mod_r = PyInt(1), !.type = PyInt(2)])
    ELSE IF m = Member("Charging")
    THEN Ok([battery_value EXCEPT !.mod_r = PyInt(1), !.type = PyInt(4)])
    ELSE Raise("UnknownBatteryMode")

_fill_no_raise(battery_value, m) ==
    IF m = Member("OwnNeeds")
    THEN Ok([battery_value EXCEPT !.mod_r = PyInt(2), !.type = PyInt(1)])
    ELSE IF m = Member("Backup")
    THEN Ok([battery_value EXCEPT !.mod_r = PyInt(3), !.type = PyInt(1)])
    ELSE IF m = Member("Advanced")
    THEN Ok([battery_value EXCEPT !.mod_r = PyInt(4), !.type = PyInt(1)])
    ELSE IF m = Member("OffGrid")
    THEN Ok([battery_value EXCEPT !.mod_r = PyInt(1), !.type = PyInt(2)])
    ELSE IF m = Member("Charging")
    THEN Ok([battery_value EXCEPT !.mod_r = PyInt(1), !.type = PyInt(4)])
    ELSE Ok(battery_value)

_fill_set_battery_config_value_request(battery_value, m) ==
    IF m = Member("OwnNeeds")
    THEN Ok([battery_value EXCEPT !.mod_r = PyInt(2), !.type = PyInt(1)])
    ELSE IF m = Member("Backup")
    THEN Ok([battery_value EXCEPT !.mod_r = PyInt(3), !.type = PyInt(1)])
    ELSE IF m = Member("Advanced")
    THEN Ok([battery_value EXCEPT !.mod_r = PyInt(4), !.type = PyInt(1)])
    ELSE IF m = Member("OffGrid")
    THEN Ok([battery_value EXCEPT !.mod_r = PyInt(1), !.type = PyInt(2)])
    ELSE IF m = Member("Charging")
    THEN Ok([battery_value EXCEPT !.mod_r = PyInt(1), !.type = PyInt(4)])
    ELSE Raise("UnknownBatteryMode")

\* SetBatteryConfigValueRequest(type=current.type, ...), lines 486-495
ValueFromSwapped(cur) ==
    [type |-> cur.fields["type"], mod_r |-> cur.fields["mod_r"],
     muf |-> cur.fields["muf"], mod |-> cur.fields["mod"],
     num |-> cur.fields["num"], sn |-> cur.fields["isn"],
     charge_max |-> cur.fields["discharge_max"],
     discharge_max |-> cur.fields["charge_max"]]

ValueFrom(cur) ==
    [type |-> cur.fields["type"], mod_r |-> cur.fields["mod_r"],
     muf |-> cur.fields["muf"], mod |-> cur.fields["mod"],
     num |-> cur.fields["num"], sn |-> cur.fields["isn"],
     charge_max |-> cur.fields["charge_max"],
     discharge_max |-> cur.fields["discharge_max"]]

\* SetBatteryConfigRequest(value=value): device and action take defaults
SetBatteryConfigRequest(value) ==
    [value |-> value, device |-> PyInt(4), action |-> PyStr("setbattery")]

\* dataclasses.asdict(request)
asdict(req) ==
    PyDict([value |-> PyDict(req.value), device |-> req.device,
            action |-> req.action])

(***************************************************************************)
(* The device: battery configurations it may hold and the HTTP bodies it   *)
(* may answer with (well formed, or deviating in one place)                *)
(***************************************************************************)
InitialConfigs ==
    {[type |-> 1, mod_r |-> 2, muf |-> 7, mod |-> 0, num |-> 1,
      isn |-> "SN123", charge_max |-> 90, discharge_max |-> 20],
     [type |-> 4, mod_r |-> 1, muf |-> 3, mod |-> 1, num |-> 2,
      isn |-> "SN9", charge_max |-> 80, discharge_max |-> 10]}

ChargeLevels == {80, 90}

DischargeLevels == {10, 20}

SerialNumbers == {PyStr("SN123")}

ItemIds == {"A", "B"}

\* Arguments a caller may pass as `mode`: the members, and two values
\* outside the enumeration.
ModeInputs == BatteryModes \cup {PyInt(2), None}

Sample(type) ==
    CASE type = "int" -> PyInt(1)
      [] type = "str" -> PyStr("x")
      [] type = "list[int]" -> PyList(<<PyInt(1), PyInt(1)>>)

\* Values of another type or shape than the declared one.
WrongValues(type) ==
    CASE type = "int" -> {PyStr("x")}
      [] type = "str" -> {PyInt(1)}
      [] type = "list[int]" -> {PyInt(1), PyList(<<PyStr("x")>>)}
      [] type \in {"list[GetInverterInfoItemResponse]",
                   "list[GetWifiListItemResponse]"} ->
           {PyInt(1), PyStr(""), PyStr("x"), PyDict(<<>>)}
      [] type = "GetBatteryInfoItemResponse" ->
           {PyInt(1), PyStr("x"), PyList(<<>>)}

FlatMap(cls) == [f \in DOMAIN Schema(cls) |-> Sample(Schema(cls)[f])]

ItemMap(cls, id) ==
    IF cls = "GetInverterInfoItemResponse"
    THEN [FlatMap(cls) EXCEPT !["isn"] = PyStr(id)]
    ELSE [FlatMap(cls) EXCEPT !["sid"] = PyStr(id)]

BatteryInfoMap(d) ==
    [isn |-> PyStr(d.isn), stu_r |-> PyInt(1), type |-> PyInt(d.type),
     mod_r |-> PyInt(d.mod_r), muf |-> PyInt(d.muf), mod |-> PyInt(d.mod),
     num |-> PyInt(d.num), fir_r |-> PyInt(1), charging |-> PyInt(1),
     charge_max |-> PyInt(d.charge_max),
     discharge_max |-> PyInt(d.discharge_max),
     battery |-> PyDict(FlatMap("GetBatteryInfoItemResponse"))]

Drop(m, k) == [f \in DOMAIN m \ {k} |-> m[f]]

AddKey(m) == [f \in DOMAIN m \cup {"zzz"} |-> IF f = "zzz" THEN PyInt(1) ELSE m[f]]

\* m itself and every deviation of m from the class in one place.
Variants(cls, m) ==
    {m} \cup {Drop(m, k) : k \in DOMAIN m} \cup {AddKey(m)}
        \cup UNION {{[m EXCEPT ![k] = w] : w \in WrongValues(Schema(cls)[k])}
                       : k \in DOMAIN m}

GoodItems(cls) == {PyDict(ItemMap(cls, id)) : id \in ItemIds}

BadItems(cls) ==
    {PyDict(v) : v \in Variants(cls, ItemMap(cls, "A")) \ {ItemMap(cls, "A")}}
        \cup {PyInt(1)}

\* Lists of at most MaxItems items of which at most one deviates.
ItemSeqs(cls) ==
    LET good == UNION {[1..n -> GoodItems(cls)] : n \in 0..MaxItems}
    IN good \cup UNION {{[s EXCEPT ![i] = b] : i \in 1..Len(s), b \in BadItems(cls)}
                           : s \in good}

ListMap(cls, field, itemcls, items) ==
    [f \in DOMAIN Schema(cls) |->
        IF f = field THEN PyList(items) ELSE Sample(Schema(cls)[f])]

JsonMaps(o, d) ==
    CASE o = "get_inverter_info" ->
           {ListMap("GetInverterInfoResponse", "inv",
                    "GetInverterInfoItemResponse", items)
               : items \in ItemSeqs("GetInverterInfoItemResponse")}
           \cup Variants("GetInverterInfoResponse",
                         ListMap("GetInverterInfoResponse", "inv",
                                 "GetInverterInfoItemResponse", <<>>))
      [] o = "get_wifi_list" ->
           {ListMap("GetWifiListResponse", "wif",
                    "GetWifiListItemResponse", items)
               : items \in ItemSeqs("GetWifiListItemResponse")}
           \cup Variants("GetWifiListResponse",
                         ListMap("GetWifiListResponse", "wif",
                                 "GetWifiListItemResponse", <<>>))
      [] o \in {"get_battery_info", "change_battery_mode"} ->
           Variants("GetBatteryInfoResponse", BatteryInfoMap(d))
           \cup {[BatteryInfoMap(d) EXCEPT !["battery"] = PyDict(v)]
                    : v \in Variants("GetBatteryInfoItemResponse",
                                     FlatMap("GetBatteryInfoItemResponse"))}
      [] OTHER -> Variants(ResponseClass(o), FlatMap(ResponseClass(o)))

\* An HTTP body: JSON text of a value, or text that is not JSON.
Json(v) == [json |-> TRUE, value |-> v]
Malformed == [json |-> FALSE]
NoBody == [json |-> "none"]

Bodies(o, d) ==
    {Malformed, Json(PyList(<<>>))} \cup {Json(PyDict(m)) : m \in JsonMaps(o, d)}

\* response.json()
ParseJson(b) == IF b.json THEN Ok(b.value) ELSE Raise("DecodeError")

(***************************************************************************)
(* State machine                                                           *)
(***************************************************************************)
Init ==
    /\ device \in InitialConfigs
    /\ op = "none"
    /\ sn = None
    /\ mode = None
    /\ pc = "idle"
    /\ session = "none"
    /\ gets = <<>>
    /\ body = NoBody
    /\ response = None
    /\ current = None
    /\ request = None
    /\ logged = None
    /\ result = None
    /\ err = "none"
    /\ unclosed = 0

\* A caller awaits one method of SolplanetApi.
Call(o, serial, m) ==
    /\ pc = "idle"
    /\ unclosed < MaxUnclosed
    /\ op' = o
    /\ sn' = serial
    /\ mode' = m
    /\ pc' = "get"
    /\ UNCHANGED <<device, session, gets, body, response, current, request,
                   logged, result, err, unclosed>>

CallQuery ==
    \E o \in QueryOps \ SerialOps : Call(o, None, None)

CallSerial ==
    \E o \in SerialOps : \E serial \in SerialNumbers : Call(o, serial, None)

CallChangeBatteryMode ==
    \E m \in ModeInputs : Call("change_battery_mode", None, m)

\* SolplanetClient.get, line 393: the method calls client.get(endpoint),
\* which creates the session.
ClientGet ==
    /\ pc = "get"
    /\ gets' = Append(gets, Endpoint(op, sn))
    /\ session' = "open"
    /\ pc' = "request"
    /\ UNCHANGED <<device, op, sn, mode, body, response, current, request,
                   logged, result, err, unclosed>>

\* line 394: the device answers with a body built from its state now.
SessionGetOk ==
    /\ pc = "request"
    /\ \E b \in Bodies(op, device) : body' = b
    /\ pc' = "json"
    /\ UNCHANGED <<device, op, sn, mode, session, gets, response, current,
                   request, logged, result, err, unclosed>>

\* line 394: connection refused or timed out; the exception leaves get and
\* every frame above it.
SessionGetFail ==
    /\ pc = "request"
    /\ err' = "NetworkError"
    /\ pc' = "done"
    /\ UNCHANGED <<device, op, sn, mode, session, gets, body, response,
                   current, request, logged, result, unclosed>>

\* line 395
ResponseJson ==
    /\ pc = "json"
    /\ IF ParseJson(body).ok
       THEN /\ response' = ParseJson(body).val
            /\ pc' = "close"
            /\ err' = err
       ELSE /\ err' = ParseJson(body).exc
            /\ pc' = "done"
            /\ response' = response
    /\ UNCHANGED <<device, op, sn, mode, session, gets, body, current,
                   request, logged, result, unclosed>>

\* lines 396-397
SessionClose ==
    /\ pc = "close"
    /\ session' = "closed"
    /\ pc' = "map"
    /\ UNCHANGED <<device, op, sn, mode, gets, body, response, current,
                   request, logged, result, err, unclosed>>

\* The mapping code of a query method, and its return.
MapResponse ==
    /\ pc = "map"
    /\ op \in QueryOps
    /\ IF Mapper(op, response).ok
       THEN /\ result' = Mapper(op, response).val
            /\ err' = err
       ELSE /\ err' = Mapper(op, response).exc
            /\ result' = result
    /\ pc' = "done"
    /\ UNCHANGED <<device, op, sn, mode, session, gets, body, response,
                   current, request, logged, unclosed>>

\* Variant of ReadCurrent that records a failed read and goes on with an
\* empty record.
ReadCurrentSwallow ==
    /\ pc = "map"
    /\ op = "change_battery_mode"
    /\ IF Mapper(op, response).ok
       THEN /\ current' = Mapper(op, response).val
            /\ err' = err
       ELSE /\ err' = Mapper(op, response).exc
            /\ current' = Instance("GetBatteryInfoResponse",
                                   [f \in DOMAIN GetBatteryInfoResponse |-> None])
    /\ pc' = "build"
    /\ UNCHANGED <<device, op, sn, mode, session, gets, body, response,
                   request, logged, result, unclosed>>

\* change_battery_mode, line 485: get_battery_info returns or raises.
ReadCurrent ==
    /\ pc = "map"
    /\ op = "change_battery_mode"
    /\ IF Mapper(op, response).ok
       THEN /\ current' = Mapper(op, response).val
            /\ pc' = "build"
            /\ err' = err
       ELSE /\ err' = Mapper(op, response).exc
            /\ pc' = "done"
            /\ current' = current
    /\ UNCHANGED <<device, op, sn, mode, session, gets, body, response,
                   request, logged, result, unclosed>>

\* Variant of BuildRequest that takes the charge limits from the device as
\* it is when the request is built.
BuildRequestFresh ==
    /\ pc = "build"
    /\ LET fresh == [ValueFrom(current) EXCEPT
                        !.charge_max = PyInt(device.charge_max),
                        !.discharge_max = PyInt(device.discharge_max)]
           filled == _fill_set_battery_config_value_request(fresh, mode)
       IN IF filled.ok
          THEN /\ request' = SetBatteryConfigRequest(filled.val)
               /\ pc' = "set"
               /\ err' = err
          ELSE /\ err' = filled.exc
               /\ pc' = "done"
               /\ request' = request
    /\ UNCHANGED <<device, op, sn, mode, session, gets, body, response,
                   current, logged, result, unclosed>>

\* change_battery_mode, lines 486-497
BuildRequest ==
    /\ pc = "build"
    /\ LET filled == _fill_set_battery_config_value_request(ValueFrom(current), mode)
       IN IF filled.ok
          THEN /\ request' = SetBatteryConfigRequest(filled.val)
               /\ pc' = "set"
               /\ err' = err
          ELSE /\ err' = filled.exc
               /\ pc' = "done"
               /\ request' = request
    /\ UNCHANGED <<device, op, sn, mode, session, gets, body, response,
                   current, logged, result, unclosed>>

\* change_battery_mode, line 498, with set_battery_config, lines 479-481:
\* the request is written to the debug log and nothing else happens.
set_battery_config ==
    /\ pc = "set"
    /\ logged' = asdict(request)
    /\ pc' = "done"
    /\ UNCHANGED <<device, op, sn, mode, session, gets, body, response,
                   current, request, result, err, unclosed>>

\* The caller takes the result or the exception; the locals are dropped.
\* A session that was not closed stays open.
Return ==
    /\ pc = "done"
    /\ unclosed' = IF session = "open" THEN unclosed + 1 ELSE unclosed
    /\ op' = "none"
    /\ sn' = None
    /\ mode' = None
    /\ pc' = "idle"
    /\ session' = "none"
    /\ gets' = <<>>
    /\ body' = NoBody
    /\ response' = None
    /\ current' = None
    /\ request' = None
    /\ logged' = None
    /\ result' = None
    /\ err' = "none"
    /\ UNCHANGED device

\* Another client of the device changes its charge limits.
ExternalWrite ==
    /\ \E c \in ChargeLevels, dm \in DischargeLevels :
          /\ <<c, dm>> # <<device.charge_max, device.discharge_max>>
          /\ device' = [device EXCEPT !.charge_max = c, !.discharge_max = dm]
    /\ UNCHANGED <<op, sn, mode, pc, session, gets, body, response, current,
                   request, logged, result, err, unclosed>>

Next ==
    \/ CallQuery
    \/ CallSerial
    \/ CallChangeBatteryMode
    \/ ClientGet
    \/ SessionGetOk
    \/ SessionGetFail
    \/ ResponseJson
    \/ SessionClose
    \/ MapResponse
    \/ ReadCurrent
    \/ BuildRequest
    \/ set_battery_config
    \/ Return
    \/ ExternalWrite

Spec == Init /\ [][Next]_vars

(***************************************************************************)
(* Properties                                                              *)
(***************************************************************************)
BatteryInfoEndpoint == <<"getdev.cgi?device=4">>

\* The (mod_r, type) pair of each mode.
ModeTable ==
    [OwnNeeds |-> <<2, 1>>, Backup |-> <<3, 1>>, Advanced |-> <<4, 1>>,
     OffGrid |-> <<1, 2>>, Charging |-> <<1, 4>>]

\* C1: for each of the five BatteryMode members the request built by
\* change_battery_mode has exactly the (mod_r, type) pair of the table,
\* whatever mod_r and type the device reported.
C1_ModeTranslation ==
    \A name \in DOMAIN BatteryMode :
        (op = "change_battery_mode" /\ request # None /\ mode = Member(name))
            => /\ request.value.mod_r = PyInt(ModeTable[name][1])
               /\ request.value.type = PyInt(ModeTable[name][2])

C1_Witness ==
    /\ request # None
    /\ mode = Member("OffGrid")
    /\ current.fields["mod_r"] = PyInt(2)
    /\ current.fields["type"] = PyInt(1)
    /\ request.value.mod_r = PyInt(1)
    /\ request.value.type = PyInt(2)

\* C2 as stated: a change_battery_mode call with a mode outside BatteryMode
\* never issues a Transport get and ends with UnknownBatteryMode.
C2_ZeroNetworkCalls ==
    (op = "change_battery_mode" /\ mode \notin BatteryModes)
        => /\ gets = <<>>
           /\ pc = "done" => err = "UnknownBatteryMode"

\* C2 amended: a change_battery_mode call with a mode outside BatteryMode
\* issues at most the battery-info read, never builds or passes on a
\* set-battery request, and once the read has returned a record it ends
\* with UnknownBatteryMode.
C2_UnknownModeNoWrite ==
    (op = "change_battery_mode" /\ mode \notin BatteryModes)
        => /\ Len(gets) <= 1
           /\ \A i \in 1..Len(gets) : gets[i] = BatteryInfoEndpoint
           /\ request = None
           /\ logged = None
           /\ pc # "set"
           /\ (pc = "done" /\ current # None) => err = "UnknownBatteryMode"

C2_Witness ==
    /\ op = "change_battery_mode"
    /\ mode = PyInt(2)
    /\ pc = "done"
    /\ err = "UnknownBatteryMode"
    /\ gets = <<BatteryInfoEndpoint>>
    /\ request = None

\* C3: a change_battery_mode call that ended without an error has made
\* exactly two network calls, the battery-info read and then the write.
C3_TwoNetworkCalls ==
    (op = "change_battery_mode" /\ pc = "done" /\ err = "none")
        => /\ Len(gets) = 2
           /\ gets[1] = BatteryInfoEndpoint

\* C4: in the request change_battery_mode builds, sn, charge_max,
\* discharge_max, muf, mod and num are the values of the record the read
\* returned (which are those of the device's answer), the payload has the
\* eight declared fields, and the envelope is device 4, action setbattery.
C4_FrameCarriedThrough ==
    request # None
        => /\ DOMAIN request.value = DOMAIN SetBatteryConfigValueRequest
           /\ request.value.sn = current.fields["isn"]
           /\ \A f \in {"charge_max", "discharge_max", "muf", "mod", "num"} :
                 request.value[f] = current.fields[f]
           /\ request.value.sn = body.value.m["isn"]
           /\ \A f \in {"charge_max", "discharge_max", "muf", "mod", "num"} :
                 request.value[f] = body.value.m[f]
           /\ request.device = PyInt(4)
           /\ request.action = PyStr("setbattery")

C4_Witness ==
    /\ pc = "set"
    /\ mode = Member("Backup")
    /\ current.fields["mod_r"] = PyInt(2)
    /\ request =
         [value |-> [type |-> PyInt(1), mod_r |-> PyInt(3),
                     sn |-> PyStr("SN123"), discharge_max |-> PyInt(20),
                     charge_max |-> PyInt(90), muf |-> PyInt(7),
                     mod |-> PyInt(0), num |-> PyInt(1)],
          device |-> PyInt(4), action |-> PyStr("setbattery")]

\* Errors the battery-info read can end with.
ReadErrors == {"NetworkError", "DecodeError", "KeyError", "TypeError"}

\* C5: once the battery-info read of change_battery_mode has failed, the
\* call is over with that error, and no set-battery request is built or
\* passed on, and no further network call is made.
C5_FailedReadNoWrite ==
    (op = "change_battery_mode" /\ err \in ReadErrors)
        => /\ pc = "done"
           /\ current = None
           /\ request = None
           /\ logged = None
           /\ gets = <<BatteryInfoEndpoint>>

C5_Witness ==
    /\ op = "change_battery_mode"
    /\ mode \in BatteryModes
    /\ pc = "done"
    /\ err = "NetworkError"
    /\ request = None

\* C6: whenever a Transport get has ended, by returning or by raising, the
\* session it opened is closed.
C6_SessionClosedAfterGet ==
    pc \in {"map", "build", "set", "done"} => session = "closed"

\* The class of the items of a nested list field of cls, "" for none.
ItemClass(cls, f) ==
    CASE cls = "GetInverterInfoResponse" /\ f = "inv" -> "GetInverterInfoItemResponse"
      [] cls = "GetWifiListResponse" /\ f = "wif" -> "GetWifiListItemResponse"
      [] OTHER -> ""

\* A response mapping lacks a declared key, at the top or in a nested item
\* or sub-record.
LacksKey(cls, resp) ==
    /\ resp.ty = "dict"
    /\ \/ DOMAIN Schema(cls) \ DOMAIN resp.m # {}
       \/ \E f \in DOMAIN resp.m \cap DOMAIN Schema(cls) :
             \/ /\ ItemClass(cls, f) # ""
                /\ resp.m[f].ty = "list"
                /\ \E i \in 1..Len(resp.m[f].items) :
                      /\ resp.m[f].items[i].ty = "dict"
                      /\ DOMAIN Schema(ItemClass(cls, f))
                            \ DOMAIN resp.m[f].items[i].m # {}
             \/ /\ Schema(cls)[f] = "GetBatteryInfoItemResponse"
                /\ resp.m[f].ty = "dict"
                /\ DOMAIN GetBatteryInfoItemResponse \ DOMAIN resp.m[f].m # {}

\* C7: a query whose response mapping lacks a declared key ends with an
\* error and returns no record.
C7_MissingKeyFails ==
    (op \in QueryOps /\ pc = "done" /\ response # None
        /\ LacksKey(ResponseClass(op), response))
        => /\ err # "none"
           /\ result = None

C7_Witness ==
    /\ op = "get_inverter_info"
    /\ pc = "done"
    /\ response.ty = "dict"
    /\ DOMAIN response.m = DOMAIN GetInverterInfoResponse
    /\ LacksKey("GetInverterInfoResponse", response)
    /\ err = "TypeError"
    /\ result = None

ScalarConforms(v, type) ==
    CASE type = "int" -> v.ty = "int"
      [] type = "str" -> v.ty = "str"
      [] type = "list[int]" ->
           v.ty = "list" /\ \A i \in 1..Len(v.items) : v.items[i].ty = "int"

MapConforms(cls, v) ==
    /\ v.ty = "dict"
    /\ DOMAIN v.m = DOMAIN Schema(cls)
    /\ \A f \in DOMAIN v.m : ScalarConforms(v.m[f], Schema(cls)[f])

Conforms(cls, f, v) ==
    IF ItemClass(cls, f) # ""
    THEN v.ty = "list"
         /\ \A i \in 1..Len(v.items) : MapConforms(ItemClass(cls, f), v.items[i])
    ELSE IF Schema(cls)[f] = "GetBatteryInfoItemResponse"
    THEN MapConforms("GetBatteryInfoItemResponse", v)
    ELSE ScalarConforms(v, Schema(cls)[f])

\* A response mapping has exactly the declared keys and one of them carries
\* a value of another type than declared.
TypeMismatch(cls, resp) ==
    /\ resp.ty = "dict"
    /\ DOMAIN resp.m = DOMAIN Schema(cls)
    /\ \E f \in DOMAIN resp.m : ~Conforms(cls, f, resp.m[f])

\* C8: a query whose response carries a value of another type than the
\* field declares ends with an error and returns no record.
C8_WrongTypeFails ==
    (op \in QueryOps /\ pc = "done" /\ response # None
        /\ TypeMismatch(ResponseClass(op), response))
        => /\ err # "none"
           /\ result = None

ListOps == {"get_inverter_info", "get_wifi_list"}

ListField(o) == IF o = "get_inverter_info" THEN "inv" ELSE "wif"

\* C9: get_inverter_info and get_wifi_list, given a response with exactly
\* the declared keys whose nested list holds n mappings with exactly the
\* item's keys, return a record whose nested list has n items, the i-th
\* being the item record made of the i-th raw item.
C9_NestedListDecoded ==
    (op \in ListOps /\ pc = "done" /\ response # None
        /\ response.ty = "dict"
        /\ DOMAIN response.m = DOMAIN Schema(ResponseClass(op))
        /\ response.m[ListField(op)].ty = "list"
        /\ \A i \in 1..Len(response.m[ListField(op)].items) :
              /\ response.m[ListField(op)].items[i].ty = "dict"
              /\ DOMAIN response.m[ListField(op)].items[i].m
                    = DOMAIN Schema(ItemClass(ResponseClass(op), ListField(op))))
        => /\ err = "none"
           /\ result.ty = "instance"
           /\ result.cls = ResponseClass(op)
           /\ DOMAIN result.fields = DOMAIN response.m
           /\ \A f \in DOMAIN response.m \ {ListField(op)} :
                 result.fields[f] = response.m[f]
           /\ LET raw == response.m[ListField(op)].items
                  out == result.fields[ListField(op)]
              IN /\ out.ty = "list"
                 /\ Len(out.items) = Len(raw)
                 /\ \A i \in 1..Len(raw) :
                       /\ out.items[i].ty = "instance"
                       /\ out.items[i].cls = ItemClass(ResponseClass(op), ListField(op))
                       /\ out.items[i].fields = raw[i].m

C9_Witness ==
    /\ op = "get_inverter_info"
    /\ pc = "done"
    /\ err = "none"
    /\ response.m["inv"].ty = "list"
    /\ Len(response.m["inv"].items) = 2
    /\ response.m["inv"].items[1].m["isn"] = PyStr("B")
    /\ response.m["inv"].items[2].m["isn"] = PyStr("A")
    /\ Len(result.fields["inv"].items) = 2
    /\ result.fields["inv"].items[1].fields["isn"] = PyStr("B")
    /\ result.fields["inv"].items[2].fields["isn"] = PyStr("A")

\* The device answered the read from charge limits c and dm, and holds
\* other limits now.
ReadIsStale(c, dm) ==
    /\ <<c, dm>> # <<device.charge_max, device.discharge_max>>
    /\ body = Json(PyDict(BatteryInfoMap(
                  [device EXCEPT !.charge_max = c, !.discharge_max = dm])))

\* C10: when the device's charge limits were changed after it answered the
\* read, the request change_battery_mode builds carries the limits of the
\* read and not the limits the device holds.
C10_StalePayload ==
    \A c \in ChargeLevels, dm \in DischargeLevels :
        (op = "change_battery_mode" /\ request # None /\ ReadIsStale(c, dm))
            => /\ request.value.charge_max = PyInt(c)
               /\ request.value.discharge_max = PyInt(dm)
               /\ <<request.value.charge_max, request.value.discharge_max>>
                     # <<PyInt(device.charge_max), PyInt(device.discharge_max)>>

C10_Witness ==
    /\ op = "change_battery_mode"
    /\ pc = "done"
    /\ err = "none"
    /\ logged = asdict(request)
    /\ ReadIsStale(90, 20)
    /\ device.charge_max = 80
    /\ request.value.charge_max = PyInt(90)
    /\ request.value.discharge_max = PyInt(20)
====
